---- MODULE Spec2Model ----
(***************************************************************************)
(* Job-portal backend: cookie-based JWT authentication.                    *)
(*                                                                         *)
(* The model covers the credential store (users), the register and login   *)
(* controllers, the jsonwebtoken codec used by login and by the            *)
(* isAuthenticated middleware, the Express route tables of the company,    *)
(* job and application routers, and the dispatch of a request through a    *)
(* route's chain  <<isAuthenticated, handler>>, the updateProfile and       *)
(* logout controllers, and the company controller with its collection.     *)
(***************************************************************************)
EXTENDS Naturals, Sequences, FiniteSets

VARIABLES
    users,     \* the users collection, in creation order; _id of the k-th is ObjectIds[k]
    now,       \* the server clock, in seconds
    issued,    \* the session tokens handed out in Set-Cookie headers so far (held by clients)
    req,       \* the request being handled, or the one answered last
    creating,  \* register requests past their findOne, waiting for User.create
    companies, \* the companies collection, in creation order
    cleared    \* the issued tokens whose cookie a logout answer has overwritten

vars == <<users, now, issued, req, creating, companies, cleared>>

----------------------------------------------------------------------------
(* Bounds of the model *)

MaxTime == 3          \* the clock is advanced at most this many times
TickSec == 43200      \* seconds per advance of the clock (half a day)
MaxTokens == 1        \* tokens remembered by clients
MaxSessions == 2      \* tokens remembered by clients that log in repeatedly

(* Program constants *)

ExpiresIn == 86400            \* jwt.sign(..., {expiresIn: '1d'})
CookieMaxAge == 86400000      \* maxAge: 1*24*60*60*1000

(* Input domains *)

Absent == "<undefined>"       \* a field the client did not send (falsy in JS)
Undefined == "undefined"      \* req.id before the middleware assigns it

Emails == {"a@x.com", "b@x.com"}
Passwords == {"s3cret!"}          \* what users register with
Guesses == Passwords \cup {"hunter2"}   \* what a login may send
Roles == {"student", "recruiter"}
ObjectIds == <<"oid1", "oid2", "oid3">>
CompanyIds == <<"cid1", "cid2">>
CompanyNames == {"Acme"}

SECRET_KEY == "process.env.SECRET_KEY"
OtherKey == "key-not-known-to-server"

----------------------------------------------------------------------------
(* bcrypt *)

Salt == "salt22chars"

\* bcrypt.hash(password, 10): "$2a$10$" ++ salt ++ digest(password, salt)
BcryptHash(password, rounds) == <<"$2a$", rounds, Salt, <<"eks", Salt, password>> >>

\* bcrypt.compare(password, hash): re-hash with the salt and cost of `hash`
BcryptCompare(password, hash) == hash = <<"$2a$", hash[2], hash[3], <<"eks", hash[3], password>> >>

----------------------------------------------------------------------------
(* jsonwebtoken *)

JwtHeader == <<"HS256", "JWT">>

\* HMAC-SHA256 as an ideal MAC: the tag determines key and signing input.
HmacSha256(key, header, payload) == <<"hs256", key, header, payload>>

\* jwt.sign that leaves exp at the time of issue (expiresIn not added)
JwtSignNoTtl(tokenData, key, expiresIn, t) ==
    LET payload == <<tokenData.userId, t, t>>
    IN  [header |-> JwtHeader, payload |-> payload,
         signature |-> HmacSha256(key, JwtHeader, payload)]

\* jwt.sign(tokenData, key, {expiresIn}) at clock t: header.payload.signature
JwtSign(tokenData, key, expiresIn, t) ==
    LET payload == <<tokenData.userId, t, t + expiresIn>>
    IN  [header |-> JwtHeader, payload |-> payload,
         signature |-> HmacSha256(key, JwtHeader, payload)]

NoDecode == [userId |-> Undefined, iat |-> 0, exp |-> 0]

Decoded(token) ==
    [threw |-> FALSE, error |-> "",
     decode |-> [userId |-> token.payload[1], iat |-> token.payload[2],
                 exp |-> token.payload[3]]]

Thrown(error) == [threw |-> TRUE, error |-> error, decode |-> NoDecode]

\* jwt.decode used in place of jwt.verify: the signature is not checked
JwtDecodeOnly(token, key, t) ==
    IF Len(token.header) # 2 \/ Len(token.payload) # 3 \/ Len(token.signature) = 0
    THEN Thrown("JsonWebTokenError: jwt malformed")
    ELSE IF t >= token.payload[3]
    THEN Thrown("TokenExpiredError: jwt expired")
    ELSE Decoded(token)

\* jwt.verify with ignoreExpiration: exp is not checked
JwtVerifyIgnoreExpiration(token, key, t) ==
    IF Len(token.header) # 2 \/ Len(token.payload) # 3 \/ Len(token.signature) = 0
    THEN Thrown("JsonWebTokenError: jwt malformed")
    ELSE IF token.signature # HmacSha256(key, token.header, token.payload)
    THEN Thrown("JsonWebTokenError: invalid signature")
    ELSE Decoded(token)

\* jwt.verify comparing the signature only up to the length of the one presented
JwtVerifyPrefixCompare(token, key, t) ==
    IF Len(token.header) # 2 \/ Len(token.payload) # 3 \/ Len(token.signature) = 0
    THEN Thrown("JsonWebTokenError: jwt malformed")
    ELSE IF token.signature # SubSeq(HmacSha256(key, token.header, token.payload), 1,
                                     Len(token.signature))
    THEN Thrown("JsonWebTokenError: invalid signature")
    ELSE IF t >= token.payload[3]
    THEN Thrown("TokenExpiredError: jwt expired")
    ELSE Decoded(token)

\* jwt.verify that accepts only the latest token signed for a subject
JwtVerifyLatestOnly(token, key, t) ==
    IF Len(token.header) # 2 \/ Len(token.payload) # 3 \/ Len(token.signature) = 0
    THEN Thrown("JsonWebTokenError: jwt malformed")
    ELSE IF token.signature # HmacSha256(key, token.header, token.payload)
    THEN Thrown("JsonWebTokenError: invalid signature")
    ELSE IF t >= token.payload[3]
    THEN Thrown("TokenExpiredError: jwt expired")
    ELSE IF \E later \in issued : /\ later.payload[1] = token.payload[1]
                                  /\ later.payload[2] > token.payload[2]
    THEN Thrown("JsonWebTokenError: superseded")
    ELSE Decoded(token)

\* jwt.verify that consults a list of tokens revoked at logout
JwtVerifyRevoked(token, key, t) ==
    IF Len(token.header) # 2 \/ Len(token.payload) # 3 \/ Len(token.signature) = 0
    THEN Thrown("JsonWebTokenError: jwt malformed")
    ELSE IF token.signature # HmacSha256(key, token.header, token.payload)
    THEN Thrown("JsonWebTokenError: invalid signature")
    ELSE IF t >= token.payload[3]
    THEN Thrown("TokenExpiredError: jwt expired")
    ELSE IF token \in cleared
    THEN Thrown("JsonWebTokenError: revoked")
    ELSE Decoded(token)

\* jwt.verify(token, key) at clock t, without callback: returns the payload or throws.
\* Order as in jsonwebtoken: structure, signature, then exp (expired when t >= exp).
JwtVerify(token, key, t) ==
    IF Len(token.header) # 2 \/ Len(token.payload) # 3 \/ Len(token.signature) = 0
    THEN Thrown("JsonWebTokenError: jwt malformed")
    ELSE IF token.signature # HmacSha256(key, token.header, token.payload)
    THEN Thrown("JsonWebTokenError: invalid signature")
    ELSE IF t >= token.payload[3]
    THEN Thrown("TokenExpiredError: jwt expired")
    ELSE Decoded(token)

----------------------------------------------------------------------------
(* The users collection and the unprotected user routes *)

\* res.status(s).json({message, success, user}) with an optional res.cookie(...)
Response(status, message, success, cookie, user) ==
    [status |-> status, message |-> message, success |-> success,
     cookie |-> cookie, user |-> user, company |-> {}]

NoResponse == Response(0, <<>>, FALSE, {}, {})

\* The collections as a document store: a write inserts or replaces one
\* document, and the store puts no constraint across documents.
Insert(docs, doc) == Append(docs, doc)
Save(docs, i, doc) == [docs EXCEPT ![i] = doc]

\* User.findOne({email}): index of the first document with that email, 0 for null
FindOne(us, email) ==
    LET S == {i \in 1..Len(us) : us[i].email = email}
    IN  IF S = {} THEN 0 ELSE CHOOSE i \in S : \A j \in S : i <= j

RegisterBodies ==
    [fullname : {"John Doe", Absent}, email : Emails \cup {Absent},
     phoneNumber : {"1234567890", Absent}, password : Passwords \cup {Absent},
     role : Roles \cup {Absent}]

LoginBodies ==
    [email : Emails \cup {Absent}, password : Guesses \cup {Absent},
     role : Roles \cup {Absent}]

\* register that logs the new user in: a token cookie on the 201 answer
RegisterResponseAutoLogin(us, body) ==
    IF \/ body.fullname = Absent \/ body.email = Absent \/ body.phoneNumber = Absent
       \/ body.password = Absent \/ body.role = Absent
    THEN Response(400, <<"Something is missing">>, FALSE, {}, {})
    ELSE IF FindOne(us, body.email) # 0
    THEN Response(400, <<"User already exists with this email">>, FALSE, {}, {})
    ELSE Response(201, <<"Account created successfully">>, TRUE,
                  {[name |-> "token",
                    value |-> JwtSign([userId |-> ObjectIds[Len(us) + 1]], SECRET_KEY,
                                      ExpiresIn, 0),
                    maxAge |-> CookieMaxAge, httpOnly |-> TRUE, sameSite |-> "strict"]},
                  {})

\* register that does not look the email up
RegisterResponseNoLookup(us, body) ==
    IF \/ body.fullname = Absent \/ body.email = Absent \/ body.phoneNumber = Absent
       \/ body.password = Absent \/ body.role = Absent
    THEN Response(400, <<"Something is missing">>, FALSE, {}, {})
    ELSE Response(201, <<"Account created successfully">>, TRUE, {}, {})

\* register controller: the response, given the collection its findOne reads
RegisterResponse(us, body) ==
    IF \/ body.fullname = Absent \/ body.email = Absent \/ body.phoneNumber = Absent
       \/ body.password = Absent \/ body.role = Absent
    THEN Response(400, <<"Something is missing">>, FALSE, {}, {})
    ELSE IF FindOne(us, body.email) # 0
    THEN Response(400, <<"User already exists with this email">>, FALSE, {}, {})
    ELSE Response(201, <<"Account created successfully">>, TRUE, {}, {})

\* register controller: await User.create({fullname, email, phoneNumber,
\* password: hashedPassword, role}) on the collection as it is when the create runs
UserCreate(us, body) ==
    Insert(us, [_id |-> ObjectIds[Len(us) + 1], fullname |-> body.fullname,
                email |-> body.email, phoneNumber |-> body.phoneNumber,
                password |-> BcryptHash(body.password, 10), role |-> body.role,
                profile |-> [bio |-> Absent, skills |-> <<>>, profilePhoto |-> ""]])

\* login that tells an unknown email apart from a wrong password
LoginResponseUserNotFound(us, body, t) ==
    IF body.email = Absent \/ body.password = Absent \/ body.role = Absent
    THEN Response(400, <<"Something is missing">>, FALSE, {}, {})
    ELSE LET i == FindOne(us, body.email) IN
         IF i = 0
         THEN Response(404, <<"User not found">>, FALSE, {}, {})
         ELSE IF ~BcryptCompare(body.password, us[i].password)
         THEN Response(400, <<"Incorrect email or password">>, FALSE, {}, {})
         ELSE Response(400, <<"Account doesn't exist with current role.">>, FALSE, {}, {})

\* login passing the cookie lifetime in seconds where milliseconds are expected
LoginResponseMaxAgeSeconds(us, body, t) ==
    IF body.email = Absent \/ body.password = Absent \/ body.role = Absent
    THEN Response(400, <<"Something is missing">>, FALSE, {}, {})
    ELSE LET i == FindOne(us, body.email) IN
         IF i = 0
         THEN Response(400, <<"Incorrect email or password">>, FALSE, {}, {})
         ELSE IF ~BcryptCompare(body.password, us[i].password)
         THEN Response(400, <<"Incorrect email or password">>, FALSE, {}, {})
         ELSE IF body.role # us[i].role
         THEN Response(400, <<"Account doesn't exist with current role.">>, FALSE, {}, {})
         ELSE LET tokenData == [userId |-> us[i]._id]
                  token == JwtSign(tokenData, SECRET_KEY, ExpiresIn, t)
                  userData == [_id |-> us[i]._id, fullname |-> us[i].fullname,
                               email |-> us[i].email, phoneNumber |-> us[i].phoneNumber,
                               role |-> us[i].role, profile |-> us[i].profile]
              IN  Response(200, <<"Welcome back ", userData.fullname>>, TRUE,
                           {[name |-> "token", value |-> token, maxAge |-> 24 * 60 * 60,
                             httpOnly |-> TRUE, sameSite |-> "strict"]},
                           {userData})

\* login controller: the response, computed at clock t
LoginResponse(us, body, t) ==
    IF body.email = Absent \/ body.password = Absent \/ body.role = Absent
    THEN Response(400, <<"Something is missing">>, FALSE, {}, {})
    ELSE LET i == FindOne(us, body.email) IN
         IF i = 0
         THEN Response(400, <<"Incorrect email or password">>, FALSE, {}, {})
         ELSE IF ~BcryptCompare(body.password, us[i].password)
         THEN Response(400, <<"Incorrect email or password">>, FALSE, {}, {})
         ELSE IF body.role # us[i].role
         THEN Response(400, <<"Account doesn't exist with current role.">>, FALSE, {}, {})
         ELSE LET tokenData == [userId |-> us[i]._id]
                  token == JwtSign(tokenData, SECRET_KEY, ExpiresIn, t)
                  userData == [_id |-> us[i]._id, fullname |-> us[i].fullname,
                               email |-> us[i].email, phoneNumber |-> us[i].phoneNumber,
                               role |-> us[i].role, profile |-> us[i].profile]
              IN  Response(200, <<"Welcome back ", userData.fullname>>, TRUE,
                           {[name |-> "token", value |-> token, maxAge |-> CookieMaxAge,
                             httpOnly |-> TRUE, sameSite |-> "strict"]},
                           {userData})

\* What the store holds for the identifier, secret and role a client sends.
Given(body) == {f \in {"email", "password", "role"} : body[f] # Absent}
Exists(us, body) == \E i \in 1..Len(us) : us[i].email = body.email
SecretOk(us, body) ==
    \E i \in 1..Len(us) : us[i].email = body.email /\ BcryptCompare(body.password, us[i].password)
RoleOk(us, body) == \E i \in 1..Len(us) : us[i].email = body.email /\ us[i].role = body.role

TokensOf(resp) == {c.value : c \in resp.cookie}

\* Express writes the maxAge option, given in milliseconds, as Max-Age in seconds
SetCookieMaxAge(cookie) == cookie.maxAge \div 1000

----------------------------------------------------------------------------
(* updateProfile and logout *)

\* Model.findById(id): index of the document with that _id, 0 for null
FindById(docs, id) ==
    LET S == {i \in 1..Len(docs) : docs[i]._id = id}
    IN  IF S = {} THEN 0 ELSE CHOOSE i \in S : TRUE

\* skills is sent as one comma-separated string, written here as its parts
UpdateBodies ==
    [fullname : {Absent}, email : Emails \cup {Absent}, phoneNumber : {Absent},
     bio : {Absent}, skills : {Absent}]

\* the stored document itself as the user object
WholeUser(user) == user

\* the user object of the 200 answers: the document without its password
UserView(user) ==
    [_id |-> user._id, fullname |-> user.fullname, email |-> user.email,
     phoneNumber |-> user.phoneNumber, role |-> user.role, profile |-> user.profile]

\* updateProfile controller for the subject id = req.id: the answer and the
\* users collection after user.save()
UpdateProfile(us, id, body) ==
    LET i == FindById(us, id) IN
    IF i = 0
    THEN [resp |-> Response(400, <<"User not found">>, FALSE, {}, {}), users |-> us]
    ELSE LET user ==
                 [us[i] EXCEPT
                    !.fullname = IF body.fullname # Absent THEN body.fullname ELSE @,
                    !.phoneNumber = IF body.phoneNumber # Absent THEN body.phoneNumber ELSE @,
                    !.email = IF body.email # Absent THEN body.email ELSE @,
                    !.profile = [@ EXCEPT
                        !.bio = IF body.bio # Absent THEN body.bio ELSE @,
                        !.skills = IF body.skills # Absent THEN body.skills ELSE @]]
         IN  [resp |-> Response(200, <<"Profile updated successfuly">>, TRUE, {},
                                {UserView(user)}),
              users |-> Save(us, i, user)]

----------------------------------------------------------------------------
(* The companies collection and the company controller *)

Returned(value) == [threw |-> FALSE, error |-> "", value |-> value]
Raised(error) == [threw |-> TRUE, error |-> error, value |-> 0]

CompanyResponse(status, message, success, company) ==
    [Response(status, message, success, {}, {}) EXCEPT !.company = company]

\* what a handler leaves behind: its answer (NoResponse when it sent none),
\* the collection, and what its catch block wrote with console.log
Outcome(resp, cs, logged) == [resp |-> resp, companies |-> cs, logged |-> logged]

RegisterCompanyBodies == [companyName : CompanyNames \cup {Absent}]

UpdateCompanyBodies ==
    [name : {"Acme Ltd"}, description : {"We build"}, website : {"https://acme.example"},
     location : {"Pune"}]

\* Company.finOne(...): the model has no such function, the call throws
CompanyFinOne(cs, filter) == Raised("TypeError: Company.finOne is not a function")

\* Company.find({userId}): the array of matching documents, possibly empty
CompanyFind(cs, userId) == SelectSeq(cs, LAMBDA c : c.userId = userId)

\* !companies for the array Company.find resolves to: an array is never falsy
NotArray(array) == FALSE

\* the argument list (req, params.id, ...): params is not declared, evaluating it throws
ParamsId(params) == Raised("ReferenceError: params is not defined")

\* registerCompany without the check of companyName
RegisterCompanyNoValidation(cs, id, body) ==
    LET found == CompanyFinOne(cs, [name |-> body.companyName]) IN
    IF found.threw
    THEN Outcome(NoResponse, cs, found.error)
    ELSE LET company == [_id |-> CompanyIds[Len(cs) + 1], name |-> body.companyName,
                         userId |-> id, description |-> Absent, website |-> Absent,
                         location |-> Absent]
         IN  Outcome(CompanyResponse(201, <<"Company registered successfully">>, TRUE,
                                     {company}),
                     Insert(cs, company), "")

\* registerCompany controller, for req.id = id
RegisterCompany(cs, id, body) ==
    IF body.companyName = Absent
    THEN Outcome(CompanyResponse(400, <<"Company name is required">>, FALSE, {}), cs, "")
    ELSE LET found == CompanyFinOne(cs, [name |-> body.companyName]) IN
         IF found.threw
         THEN Outcome(NoResponse, cs, found.error)
         ELSE IF found.value # 0
         THEN Outcome(CompanyResponse(400, <<"You cann't register same company">>, FALSE, {}),
                      cs, "")
         ELSE LET company == [_id |-> CompanyIds[Len(cs) + 1], name |-> body.companyName,
                              userId |-> id, description |-> Absent, website |-> Absent,
                              location |-> Absent]
              IN  Outcome(CompanyResponse(201, <<"Company registered successfully">>, TRUE,
                                          {company}),
                          Insert(cs, company), "")

\* getCompany controller, for req.id = id: nothing follows the if
GetCompany(cs, id) ==
    LET found == CompanyFind(cs, id) IN
    IF NotArray(found)
    THEN Outcome(CompanyResponse(404, <<"Company not found">>, FALSE, {}), cs, "")
    ELSE Outcome(NoResponse, cs, "")

\* getCompanyById controller, for req.params.id = companyId
GetCompanyById(cs, companyId) ==
    LET i == FindById(cs, companyId) IN
    IF i = 0
    THEN Outcome(CompanyResponse(404, <<"Company not found">>, FALSE, {}), cs, "")
    ELSE Outcome(CompanyResponse(200, <<>>, TRUE, {cs[i]}), cs, "")

\* updateCompany controller, for req.params = params
UpdateCompany(cs, params, body) ==
    LET updatedData == [name |-> body.name, description |-> body.description,
                        website |-> body.website, location |-> body.location]
        arg == ParamsId(params)
    IN  IF arg.threw
        THEN Outcome(NoResponse, cs, arg.error)
        ELSE LET i == FindById(cs, arg.value) IN
             IF i = 0
             THEN Outcome(CompanyResponse(404, <<"Company not found">>, FALSE, {}), cs, "")
             ELSE Outcome(CompanyResponse(404, <<"Company information updated">>, TRUE, {}),
                          Save(cs, i, [cs[i] EXCEPT !.name = updatedData.name,
                                                    !.description = updatedData.description,
                                                    !.website = updatedData.website,
                                                    !.location = updatedData.location]),
                          "")

----------------------------------------------------------------------------
(* Route tables: router.route(path).method(isAuthenticated, handler) *)

\* a route declared without the middleware
RouteUnguarded(router, method, path, handler) ==
    [router |-> router, method |-> method, path |-> path, chain |-> <<handler>>]

Route(router, method, path, handler) ==
    [router |-> router, method |-> method, path |-> path,
     chain |-> <<"isAuthenticated", handler>>]

CompanyRoutes ==
    { Route("company", "post", "/register", "registerCompany"),
      Route("company", "post", "/update/:id", "updateCompany"),
      Route("company", "post", "/get/:id", "getCompanyById"),
      Route("company", "get", "/get", "getCompany") }

JobRoutes ==
    { Route("job", "post", "/post", "postjob"),
      Route("job", "put", "/getAdminJobs", "getAdminJobs"),
      Route("job", "get", "/get/:id", "getJobById"),
      Route("job", "get", "/get", "getAllJobs") }

ApplicationRoutes ==
    { Route("application", "get", "/apply/:id", "applyJob"),
      Route("application", "put", "/get", "getAppliedJobs"),
      Route("application", "get", "/:id/applicants", "getApplicants"),
      Route("application", "post", "/status/:id/update", "updateStatus") }

Routes == CompanyRoutes \cup JobRoutes \cup ApplicationRoutes

\* the gated route of the user router
ProfileRoutes == { Route("user", "post", "/profile/update", "updateProfile") }

GatedRoutes == Routes \cup ProfileRoutes

NoRoute == [router |-> "", method |-> "", path |-> "", chain |-> <<>>]

----------------------------------------------------------------------------
(* Cookies a client can present: it holds the tokens it was issued and can
   alter them, but cannot compute a tag under SECRET_KEY. *)

UserIdsIn(us) == {us[i]._id : i \in 1..Len(us)}

\* a changed userId in the payload, signature kept
FlipUser(t, u) == [t EXCEPT !.payload = <<u, t.payload[2], t.payload[3]>>]
\* a later exp in the payload, signature kept
FlipExp(t) == [t EXCEPT !.payload = <<t.payload[1], t.payload[2], t.payload[3] + ExpiresIn>>]
\* a changed signature: the tag of the same input under another key
FlipSig(t) == [t EXCEPT !.signature = HmacSha256(OtherKey, t.header, t.payload)]
\* the cookie value cut by one character: the signature loses its end
Truncate(t) == [t EXCEPT !.signature = SubSeq(t.signature, 1, Len(t.signature) - 1)]
\* a string that is no JWT
Garbage == [header |-> <<>>, payload |-> <<>>, signature |-> <<>>]

Tampered(us, toks) ==
    {FlipUser(t, u) : t \in toks, u \in UserIdsIn(us)} \cup {FlipExp(t) : t \in toks}
    \cup {FlipSig(t) : t \in toks} \cup {Truncate(t) : t \in toks}
    \cup {[t EXCEPT !.signature = t2.signature] : t \in toks, t2 \in toks}

Forged(us, t) ==
    {JwtSign([userId |-> u], OtherKey, ExpiresIn, t) : u \in UserIdsIn(us)} \cup {Garbage}

\* what a browser sends: no cookie, or the token cookie it was given
Genuine(toks) ==
    {[cookies |-> {}, origin |-> "none"]}
    \cup {[cookies |-> {x}, origin |-> "issued"] : x \in toks}

Presentable(us, toks, t) ==
    {[cookies |-> {}, origin |-> "none"]}
    \cup {[cookies |-> {x}, origin |-> "issued"] : x \in toks}
    \cup {[cookies |-> {x}, origin |-> "tampered"] : x \in Tampered(us, toks) \ toks}
    \cup {[cookies |-> {x}, origin |-> "forged"] : x \in Forged(us, t)}

----------------------------------------------------------------------------
(* A request: the user routes answer in one step; a protected route runs its chain *)

UserRoute(path, handler) ==
    [router |-> "user", method |-> "post", path |-> path, chain |-> <<handler>>]

NoChecks == [given |-> {}, exists |-> FALSE, secretOk |-> FALSE, roleOk |-> FALSE]

Idle ==
    [stage |-> "idle", route |-> NoRoute, idx |-> 0, cookies |-> {}, origin |-> "none",
     gate |-> "none", at |-> 0, error |-> "", decode |-> NoDecode, id |-> Undefined,
     nextCalls |-> 0, resp |-> NoResponse, started |-> "none", checks |-> NoChecks,
     body |-> <<>>, params |-> <<>>, logged |-> ""]

NewRequest(route, c) ==
    [Idle EXCEPT !.stage = "arrived", !.route = route, !.idx = 1,
                 !.cookies = c.cookies, !.origin = c.origin]

\* what the collection us holds for the fields of body
Checks(us, body) ==
    [given |-> Given(body), exists |-> Exists(us, body),
     secretOk |-> SecretOk(us, body), roleOk |-> RoleOk(us, body)]

\* a request answered by register or login
Answered(route, us, body, resp) ==
    [Idle EXCEPT !.stage = "answered", !.route = route, !.idx = 1,
                 !.started = route.chain[1], !.resp = resp, !.body = body,
                 !.checks = Checks(us, body)]

\* a handler has run to its end
Handled(r, body, params, resp, logged) ==
    [r EXCEPT !.stage = "finished", !.body = body, !.params = params, !.resp = resp,
              !.logged = logged]

\* logout controller: the token cookie overwritten with one of maxAge 0
LogoutResponse ==
    Response(200, <<>>, TRUE,
             {[name |-> "token", value |-> Garbage, maxAge |-> 0, httpOnly |-> FALSE,
               sameSite |-> ""]}, {})

Reject(r, status, message) ==
    [r EXCEPT !.stage = "answered", !.gate = "Rejected",
              !.resp = Response(status, message, FALSE, {}, {})]

\* isAuthenticated's catch block: whatever jwt.verify threw, the request is
\* answered 401 with the invalid-credential message and next() is not called
IsAuthenticatedCatch(r, error) ==
    Reject([r EXCEPT !.error = error], 401, <<"invalid credential">>)

\* isAuthenticated letting a request without a token through as a guest
EnterGuest(r, t) ==
    IF r.cookies = {}
    THEN [r EXCEPT !.at = t, !.nextCalls = r.nextCalls + 1, !.gate = "Verified",
                   !.idx = r.idx + 1, !.stage = "next"]
    ELSE LET token == CHOOSE x \in r.cookies : TRUE
             v == JwtVerify(token, SECRET_KEY, t)
         IN  IF v.threw
             THEN IsAuthenticatedCatch([r EXCEPT !.at = t], v.error)
             ELSE [r EXCEPT !.stage = "await", !.at = t, !.decode = v.decode]

\* isAuthenticated answering an expired token with the error's own message
EnterLeaksExpiry(r, t) ==
    IF r.cookies = {}
    THEN Reject([r EXCEPT !.at = t], 401, <<"user not authenticated">>)
    ELSE LET token == CHOOSE x \in r.cookies : TRUE
             v == JwtVerify(token, SECRET_KEY, t)
         IN  IF v.threw /\ v.error = "TokenExpiredError: jwt expired"
             THEN Reject([r EXCEPT !.at = t, !.error = v.error], 401, <<"jwt expired">>)
             ELSE IF v.threw
             THEN IsAuthenticatedCatch([r EXCEPT !.at = t], v.error)
             ELSE [r EXCEPT !.stage = "await", !.at = t, !.decode = v.decode]

\* isAuthenticated up to its await: the cookie, the missing-token answer, jwt.verify
IsAuthenticatedEnter(r, t) ==
    IF r.cookies = {}
    THEN Reject([r EXCEPT !.at = t], 401, <<"user not authenticated">>)
    ELSE LET token == CHOOSE x \in r.cookies : TRUE
             v == JwtVerify(token, SECRET_KEY, t)
         IN  IF v.threw
             THEN IsAuthenticatedCatch([r EXCEPT !.at = t], v.error)
             ELSE [r EXCEPT !.stage = "await", !.at = t, !.decode = v.decode]

\* isAuthenticated that assigns req.id and returns without calling next()
ResumeNoNext(r) ==
    IF r.decode = NoDecode
    THEN Reject(r, 401, <<"Invalid token">>)
    ELSE [r EXCEPT !.id = r.decode.userId, !.stage = "returned"]

\* isAuthenticated after its await: the !decode answer, req.id = decode.userId, next()
IsAuthenticatedResume(r) ==
    IF r.decode = NoDecode
    THEN Reject(r, 401, <<"Invalid token">>)
    ELSE [r EXCEPT !.id = r.decode.userId, !.nextCalls = r.nextCalls + 1,
                   !.gate = "Verified", !.idx = r.idx + 1, !.stage = "next"]

----------------------------------------------------------------------------
(* Actions *)

Init ==
    /\ users = <<>>
    /\ now = 0
    /\ issued = {}
    /\ req = Idle
    /\ creating = <<>>
    /\ companies = <<>>
    /\ cleared = {}

Tick ==
    /\ now < MaxTime * TickSec
    /\ now' = now + TickSec
    /\ UNCHANGED <<users, issued, req, creating, companies, cleared>>

\* register up to its create: validation and await User.findOne({email}); a
\* request that passes both goes on to bcrypt.hash and User.create, and other
\* requests are served while it waits
RegisterFind ==
    /\ req.stage = "idle"
    /\ \E body \in RegisterBodies :
        LET resp == RegisterResponse(users, body) IN
        IF resp.status = 201
        THEN /\ Len(users) + Len(creating) < Len(ObjectIds)
             /\ creating' = Append(creating, [body |-> body, resp |-> resp,
                                               checks |-> Checks(users, body)])
             /\ UNCHANGED <<req, issued>>
        ELSE /\ req' = Answered(UserRoute("/register", "register"), users, body, resp)
             /\ issued' = issued \cup TokensOf(resp)
             /\ UNCHANGED creating
    /\ UNCHANGED <<users, now, companies, cleared>>

\* POST /register while no other registration is waiting for its create
Register == creating = <<>> /\ RegisterFind

\* POST /register while another registration is waiting for its create
RegisterOverlapping == creating # <<>> /\ RegisterFind

\* register from its create on: the document is inserted and 201 is answered
RegisterCreate ==
    /\ req.stage = "idle"
    /\ \E k \in 1..Len(creating) :
        /\ users' = UserCreate(users, creating[k].body)
        /\ req' = [Answered(UserRoute("/register", "register"), users, creating[k].body,
                            creating[k].resp)
                      EXCEPT !.checks = creating[k].checks]
        /\ issued' = issued \cup TokensOf(creating[k].resp)
        /\ creating' = SubSeq(creating, 1, k - 1) \o SubSeq(creating, k + 1, Len(creating))
    /\ UNCHANGED <<now, companies, cleared>>

LoginUpTo(held) ==
    /\ req.stage = "idle"
    /\ \E body \in LoginBodies :
        LET resp == LoginResponse(users, body, now) IN
        /\ Cardinality(issued \cup TokensOf(resp)) <= held
        /\ req' = [Answered(UserRoute("/login", "login"), users, body, resp)
                      EXCEPT !.at = now]
        /\ issued' = issued \cup TokensOf(resp)
    /\ UNCHANGED <<users, now, creating, companies, cleared>>

\* POST /login
Login == LoginUpTo(MaxTokens)

\* POST /login by clients that log in again while their earlier token is valid
LoginAgain == LoginUpTo(MaxSessions)

\* GET /logout, sent by a client with or without a token cookie
Logout ==
    /\ req.stage = "idle"
    /\ \E c \in {{}} \cup {{t} : t \in issued} :
        /\ req' = [Idle EXCEPT !.stage = "answered", !.route = UserRoute("/logout", "logout"),
                               !.idx = 1, !.started = "logout", !.cookies = c,
                               !.resp = LogoutResponse]
        /\ cleared' = cleared \cup c
    /\ UNCHANGED <<users, now, issued, creating, companies>>

ArriveAt(routes, presented) ==
    /\ req.stage = "idle"
    /\ \E route \in routes, c \in presented :
           req' = [NewRequest(route, c) EXCEPT !.gate = "Unverified"]
    /\ UNCHANGED <<users, now, issued, creating, companies, cleared>>

\* a request to a route of the company, job or application router, with
\* whatever cookie its sender can make up
Arrive == ArriveAt(Routes, Presentable(users, issued, now))

\* a request of a browser for a company page, with the cookie it was given
ArriveCompany ==
    ArriveAt({Route("company", "post", "/get/:id", "getCompanyById")}, Genuine(issued))

\* a request of a browser to the gated user route, with the cookie it was given
ArriveProfile == ArriveAt(ProfileRoutes, Genuine(issued))

GateEnter ==
    /\ req.stage = "arrived"
    /\ req.route.chain[req.idx] = "isAuthenticated"
    /\ req' = IsAuthenticatedEnter(req, now)
    /\ UNCHANGED <<users, now, issued, creating, companies, cleared>>

GateResume ==
    /\ req.stage = "await"
    /\ req' = IsAuthenticatedResume(req)
    /\ UNCHANGED <<users, now, issued, creating, companies, cleared>>

\* Express invokes the handler of the chain
HandlerStart ==
    /\ req.stage \in {"arrived", "next"}
    /\ req.route.chain[req.idx] # "isAuthenticated"
    /\ req' = [req EXCEPT !.stage = "handler", !.started = req.route.chain[req.idx]]
    /\ UNCHANGED <<users, now, issued, creating, companies, cleared>>

ModelledHandlers ==
    {"updateProfile", "registerCompany", "getCompany", "getCompanyById", "updateCompany"}

\* the handlers of the job and application routers
HandlerReturn ==
    /\ req.stage = "handler"
    /\ req.started \notin ModelledHandlers
    /\ req' = [req EXCEPT !.stage = "finished"]
    /\ UNCHANGED <<users, now, issued, creating, companies, cleared>>

HandleUpdateProfile ==
    /\ req.stage = "handler"
    /\ req.started = "updateProfile"
    /\ \E body \in UpdateBodies :
        LET o == UpdateProfile(users, req.id, body) IN
        /\ users' = o.users
        /\ req' = Handled(req, body, <<>>, o.resp, "")
    /\ UNCHANGED <<now, issued, creating, companies, cleared>>

HandleRegisterCompany ==
    /\ req.stage = "handler"
    /\ req.started = "registerCompany"
    /\ \E body \in RegisterCompanyBodies :
        LET o == RegisterCompany(companies, req.id, body) IN
        /\ companies' = o.companies
        /\ req' = Handled(req, body, <<>>, o.resp, o.logged)
    /\ UNCHANGED <<users, now, issued, creating, cleared>>

HandleGetCompany ==
    /\ req.stage = "handler"
    /\ req.started = "getCompany"
    /\ LET o == GetCompany(companies, req.id) IN
        /\ companies' = o.companies
        /\ req' = Handled(req, <<>>, <<>>, o.resp, o.logged)
    /\ UNCHANGED <<users, now, issued, creating, cleared>>

HandleGetCompanyById ==
    /\ req.stage = "handler"
    /\ req.started = "getCompanyById"
    /\ \E i \in 1..Len(CompanyIds) :
        LET params == [id |-> CompanyIds[i]]
            o == GetCompanyById(companies, params.id)
        IN  /\ companies' = o.companies
            /\ req' = Handled(req, <<>>, params, o.resp, o.logged)
    /\ UNCHANGED <<users, now, issued, creating, cleared>>

HandleUpdateCompany ==
    /\ req.stage = "handler"
    /\ req.started = "updateCompany"
    /\ \E i \in 1..Len(CompanyIds), body \in UpdateCompanyBodies :
        LET params == [id |-> CompanyIds[i]]
            o == UpdateCompany(companies, params, body)
        IN  /\ companies' = o.companies
            /\ req' = Handled(req, body, params, o.resp, o.logged)
    /\ UNCHANGED <<users, now, issued, creating, cleared>>

\* the connection of an answered request is released
Close ==
    /\ req.stage \in {"answered", "finished"}
    /\ req' = Idle
    /\ UNCHANGED <<users, now, issued, creating, companies, cleared>>

\* The server over time, registrations one after another, under senders of
\* any cookie on the company, job and application routers.
Next ==
    \/ Tick
    \/ Register
    \/ RegisterCreate
    \/ Login
    \/ Arrive
    \/ GateEnter
    \/ GateResume
    \/ HandlerStart
    \/ HandlerReturn
    \/ HandleRegisterCompany
    \/ HandleGetCompany
    \/ HandleGetCompanyById
    \/ HandleUpdateCompany
    \/ Close

Spec == Init /\ [][Next]_vars

FairSpec == Spec /\ WF_vars(GateEnter) /\ WF_vars(GateResume)

\* The user router under browsers: registrations that may overlap, logins,
\* logouts and profile updates, all at one instant of the clock.
StoreNext ==
    \/ Register
    \/ RegisterOverlapping
    \/ RegisterCreate
    \/ Login
    \/ Logout
    \/ ArriveProfile
    \/ GateEnter
    \/ GateResume
    \/ HandlerStart
    \/ HandleUpdateProfile
    \/ Close

StoreSpec == Init /\ [][StoreNext]_vars

\* Sessions of browsers over time: users that log in again and log out, and
\* open company pages with the cookie they hold.
SessionNext ==
    \/ Tick
    \/ Register
    \/ RegisterCreate
    \/ LoginAgain
    \/ Logout
    \/ ArriveCompany
    \/ GateEnter
    \/ GateResume
    \/ HandlerStart
    \/ HandleGetCompanyById
    \/ Close

SessionSpec == Init /\ [][SessionNext]_vars

----------------------------------------------------------------------------
(* Properties *)

Protected == req.route \in GatedRoutes
Token == CHOOSE x \in req.cookies : TRUE
Decided == Protected /\ req.stage # "arrived"
Observable(resp) == <<resp.status, resp.message>>

\* C1: on every route of the company, job and application routers the handler
\* starts only after isAuthenticated has, for this request, verified the token
\* in the cookie and set req.id from its payload.
C1_HandlerOnlyAfterGate ==
    (Protected /\ req.started # "none") =>
        /\ req.started = req.route.chain[Len(req.route.chain)]
        /\ req.gate = "Verified"
        /\ req.cookies # {}
        /\ ~JwtVerify(Token, SECRET_KEY, req.at).threw
        /\ req.id # Undefined
        /\ req.id = JwtVerify(Token, SECRET_KEY, req.at).decode.userId

C1_Witness ==
    /\ req.route = Route("application", "post", "/status/:id/update", "updateStatus")
    /\ req.started = "updateStatus"

\* C2: a request without a token cookie is rejected by the gate with 401 and the
\* missing-credential message; req.id stays unset, next() is not called and the
\* handler does not run.
C2_MissingCookieRejected ==
    (Decided /\ req.cookies = {}) =>
        /\ req.gate = "Rejected"
        /\ req.stage = "answered"
        /\ Observable(req.resp) = <<401, <<"user not authenticated">> >>
        /\ req.id = Undefined
        /\ req.nextCalls = 0
        /\ req.started = "none"

C2_Witness == Decided /\ req.cookies = {} /\ req.gate = "Rejected"

GateVerified == req.gate = "Verified" /\ req.nextCalls = 1 /\ req.id # Undefined
GateRejected ==
    /\ req.gate = "Rejected"
    /\ req.nextCalls = 0
    /\ req.resp.status = 401
    /\ req.started = "none"

C5_IdentityFromVerifiedToken ==
    /\ (Protected /\ req.id # Undefined) =>
           /\ req.gate = "Verified"
           /\ req.cookies # {}
           /\ Token \in issued
           /\ Token.signature = HmacSha256(SECRET_KEY, Token.header, Token.payload)
           /\ req.at < Token.payload[3]
           /\ req.id = Token.payload[1]
           /\ req.id \in UserIdsIn(users)
    /\ (Protected /\ req.gate = "Verified") => req.id # Undefined
    /\ \A t \in issued : \E i \in 1..Len(users) :
           t = JwtSign([userId |-> users[i]._id], SECRET_KEY, ExpiresIn, t.payload[2])

C5_Witness ==
    /\ Protected
    /\ req.gate = "Verified"
    /\ Len(users) = 2
    /\ req.id = users[2]._id

\* C6: a token verified with the key it was signed with, at the instant it was
\* signed, yields the subject it was signed for: for the token login has just
\* put into the cookie, and for every subject, key and positive lifetime.
C6_VerifyAfterSign ==
    /\ (req.started = "login" /\ req.resp.cookie # {}) =>
           \A c \in req.resp.cookie, u \in req.resp.user :
               LET v == JwtVerify(c.value, SECRET_KEY, c.value.payload[2])
               IN  ~v.threw /\ v.decode.userId = u._id
    /\ \A i \in 1..Len(ObjectIds), key \in {SECRET_KEY, OtherKey}, ttl \in {1, ExpiresIn} :
           LET v == JwtVerify(JwtSign([userId |-> ObjectIds[i]], key, ttl, now), key, now)
           IN  ~v.threw /\ v.decode.userId = ObjectIds[i]

C6_Witness ==
    /\ req.started = "login"
    /\ \E c \in req.resp.cookie : c.value.payload[2] = now /\ now > 0

UnknownEmail(body) == body.email # Absent /\ ~Exists(users, body)
WrongSecret(body) ==
    body.password # Absent /\ Exists(users, body) /\ ~SecretOk(users, body)

C9_LoginFailuresAlike ==
    /\ \A b2 \in LoginBodies : WrongSecret(b2) =>
           \A e \in Emails, p \in Guesses :
               LET b1 == [email |-> e, password |-> p, role |-> b2.role]
               IN  UnknownEmail(b1) =>
                       Observable(LoginResponse(users, b1, now))
                           = Observable(LoginResponse(users, b2, now))
    /\ (/\ req.started = "login"
        /\ req.checks.given = {"email", "password", "role"}
        /\ ~(req.checks.exists /\ req.checks.secretOk)) =>
           Observable(req.resp) = <<400, <<"Incorrect email or password">> >>

C9_Witness ==
    /\ req.started = "login"
    /\ req.checks.given = {"email", "password", "role"}
    /\ req.checks.exists
    /\ ~req.checks.secretOk
    /\ \E b \in LoginBodies : UnknownEmail(b)

\* C10: a token is signed and the token cookie set exactly by a login whose
\* email is stored, whose password matches the stored hash and whose role is
\* the stored role; every other login, every registration and every answer of
\* the gate carries no cookie, and clients hold only tokens issued that way.
C10_TokenOnlyFromLogin ==
    /\ req.started = "login" =>
           (req.resp.cookie # {}
               <=> (req.checks.exists /\ req.checks.secretOk /\ req.checks.roleOk))
    /\ (req.started = "register" \/ Protected) => req.resp.cookie = {}
    /\ \A c \in req.resp.cookie :
           /\ c.name = "token"
           /\ c.value \in issued
           /\ c.value.signature = HmacSha256(SECRET_KEY, c.value.header, c.value.payload)
    /\ (users = <<>>) => issued = {}

C10_Witness ==
    /\ req.started = "login"
    /\ req.resp.cookie # {}
    /\ req.resp.status = 200

\* C11: a register request whose email findOne finds in the collection is
\* answered 400 with success false; the step that answers it leaves the users
\* collection as it was, and no register step changes or removes a stored
\* document or its password hash.
C11_DuplicateRejected ==
    /\ []((req.started = "register" /\ req.checks.exists) =>
              /\ req.resp.status = 400
              /\ req.resp.success = FALSE
              /\ (\A f \in DOMAIN req.body : req.body[f] # Absent) =>
                     req.resp.message = <<"User already exists with this email">>)
    /\ [][(req'.started = "register" /\ req' # req) =>
              /\ req'.resp.status # 201 => users' = users
              /\ Len(users') >= Len(users)
              /\ \A i \in 1..Len(users) : users'[i] = users[i]]_vars

C11_Witness ==
    /\ req.started = "register"
    /\ req.checks.exists
    /\ req.resp.status = 400
    /\ \E i \in 1..Len(users) :
           users[i].email = req.body.email /\ users[i].role # req.body.role

SameSubject(t1, t2) == t1.payload[1] = t2.payload[1]

C14_LogoutRevokesNothing ==
    /\ [](req.started = "logout" =>
              /\ req.resp.success = TRUE
              /\ Cardinality(req.resp.cookie) = 1
              /\ \A c \in req.resp.cookie :
                     c.name = "token" /\ c.maxAge = 0 /\ c.value \notin issued)
    /\ [][(req'.started = "logout" /\ req' # req) =>
              /\ <<users, companies, issued, creating, now>>'
                     = <<users, companies, issued, creating, now>>
              /\ cleared \subseteq cleared']_vars
    /\ []((Decided /\ req.cookies # {} /\ req.cookies \subseteq cleared
            /\ req.at < Token.payload[3]) =>
              /\ req.gate \in {"Unverified", "Verified"}
              /\ req.gate = "Unverified" => req.stage = "await"
              /\ req.gate = "Verified" => req.id = Token.payload[1])
    /\ [](\A t \in cleared : now < t.payload[3] => ~JwtVerify(t, SECRET_KEY, now).threw)

C14_Witness ==
    /\ Decided
    /\ req.cookies # {}
    /\ req.cookies \subseteq cleared
    /\ req.gate = "Verified"
    /\ req.started = "getCompanyById"
    /\ req.at > Token.payload[2]

\* C15: the answers of register, login, updateProfile and logout carry no
\* password: register and logout answer without a user object, login and
\* updateProfile with the fields _id, fullname, email, phoneNumber, role and
\* profile of the stored document and nothing else, and no message holds a
\* password a client sent.
UserControllers == {"register", "login", "updateProfile", "logout"}
ViewFields == {"_id", "fullname", "email", "phoneNumber", "role", "profile"}

C15_NoPasswordInResponse ==
    (req.started \in UserControllers) =>
        /\ \A u \in req.resp.user :
               /\ DOMAIN u = ViewFields
               /\ "password" \notin DOMAIN u.profile
               /\ \A f \in ViewFields \ {"profile"} : u[f] \notin Guesses
               /\ \E i \in 1..Len(users) :
                      /\ users[i]._id = u._id
                      /\ \A f \in ViewFields : u[f] = users[i][f]
        /\ \A k \in 1..Len(req.resp.message) : req.resp.message[k] \notin Guesses
        /\ req.resp.company = {}
        /\ req.started \in {"register", "logout"} => req.resp.user = {}
        /\ req.resp.user # {} => req.resp.status = 200

C15_Witness ==
    /\ req.started = "updateProfile"
    /\ req.resp.status = 200
    /\ \E u \in req.resp.user : u.email = req.body.email /\ u._id = "oid2"

\* C16: the cookie of a successful login is named token, is httpOnly and
\* sameSite strict, its value is the token login signed for the user at that
\* instant, and its Max-Age in seconds is the token's lifetime exp - iat, one day.
C16_CookieContract ==
    (req.started = "login" /\ req.resp.status = 200) =>
        /\ req.resp.cookie # {}
        /\ \A c \in req.resp.cookie, u \in req.resp.user :
               /\ c.name = "token"
               /\ c.httpOnly = TRUE
               /\ c.sameSite = "strict"
               /\ c.value = JwtSign([userId |-> u._id], SECRET_KEY, ExpiresIn, req.at)
               /\ SetCookieMaxAge(c) = c.value.payload[3] - c.value.payload[2]
               /\ SetCookieMaxAge(c) = 24 * 60 * 60
               /\ req.at + SetCookieMaxAge(c) = JwtVerify(c.value, SECRET_KEY, req.at).decode.exp

C16_Witness ==
    /\ req.started = "login"
    /\ req.resp.status = 200
    /\ req.at > 0
    /\ \E c \in req.resp.cookie : c.value.payload[2] = req.at

\* C17: register, login and registerCompany answer a request that lacks one of
\* their required fields with a 4xx status and success false, and the step that
\* answers it leaves the users and the companies collection as they were.
Validating == {"register", "login", "registerCompany"}

MissingField(r) ==
    /\ r.started \in Validating
    /\ r.stage \in {"answered", "finished"}
    /\ \E f \in DOMAIN r.body : r.body[f] = Absent

C17_MissingFieldRejected ==
    /\ [](MissingField(req) =>
              /\ req.resp.status \in 400..499
              /\ req.resp.success = FALSE
              /\ req.resp.cookie = {}
              /\ req.logged = "")
    /\ [][(req' # req /\ MissingField(req')) =>
              (users' = users /\ companies' = companies /\ creating' = creating)]_vars

C17_Witness ==
    /\ MissingField(req)
    /\ req.started = "registerCompany"
    /\ req.resp.message = <<"Company name is required">>
    /\ Len(users) > 0

\* C18: when registerCompany, getCompany, getCompanyById or updateCompany has
\* run to its end, one response has been sent, and if the handler caught an
\* error that response has a 5xx status.
CompanyHandlers == {"registerCompany", "getCompany", "getCompanyById", "updateCompany"}

C18_CompanyHandlersRespond ==
    (req.started \in CompanyHandlers /\ req.stage = "finished") =>
        /\ req.resp # NoResponse
        /\ req.logged # "" => req.resp.status \in 500..599

\* C19: getCompany answers the request of the verified user u with the
\* companies whose userId is u, or with 404 Company not found when there is
\* none.
C19_GetCompanyAnswers ==
    (req.started = "getCompany" /\ req.stage = "finished") =>
        LET mine == {companies[i] : i \in {k \in 1..Len(companies) :
                                               companies[k].userId = req.id}}
        IN  /\ req.resp # NoResponse
            /\ \/ req.resp.status = 200 /\ req.resp.company = mine
               \/ /\ req.resp.status = 404
                  /\ req.resp.message = <<"Company not found">>
                  /\ mine = {}

\* C20: getCompanyById and updateCompany answer 404 exactly when no company has
\* the id of the URL; otherwise getCompanyById answers 200 with that company
\* and updateCompany answers with a 2xx status, success true, and the company
\* stored with the submitted name, description, website and location.
C20_ByIdAndUpdate ==
    (req.started \in {"getCompanyById", "updateCompany"} /\ req.stage = "finished") =>
        LET i == FindById(companies, req.params.id) IN
        /\ req.resp # NoResponse
        /\ req.resp.status = 404 <=> i = 0
        /\ (i # 0 /\ req.started = "getCompanyById") =>
               (req.resp.status = 200 /\ req.resp.company = {companies[i]})
        /\ (i # 0 /\ req.started = "updateCompany") =>
               /\ req.resp.status \in 200..299
               /\ req.resp.success = TRUE
               /\ \A f \in {"name", "description", "website", "location"} :
                      companies[i][f] = req.body[f]

\* C21: registerCompany with the name of a stored company answers 400 with
\* success false and stores nothing; with a name not yet stored it stores
\* exactly one company of that name and answers 201; so no two stored
\* companies ever have the same name.
StoredName(cs, name) == \E i \in 1..Len(cs) : cs[i].name = name

C21_RegisterCompanyNames ==
    /\ [](\A i, j \in 1..Len(companies) :
              companies[i].name = companies[j].name => i = j)
    /\ [][(/\ req.stage = "handler"
           /\ req'.stage = "finished"
           /\ req'.started = "registerCompany"
           /\ req'.body.companyName # Absent) =>
              IF StoredName(companies, req'.body.companyName)
              THEN /\ req'.resp.status = 400
                   /\ req'.resp.success = FALSE
                   /\ companies' = companies
              ELSE /\ req'.resp.status = 201
                   /\ Len(companies') = Len(companies) + 1
                   /\ SubSeq(companies', 1, Len(companies)) = companies
                   /\ companies'[Len(companies')].name = req'.body.companyName]_vars

\* C22: a company enters the collection only in a registerCompany step, with
\* the req.id of that request as its userId, and a stored company changes only
\* in an updateCompany step and only in name, description, website and
\* location.  No registerCompany request gets as far as Company.create (C21),
\* so the collection stays empty and no step puts this to the test.
UpdatedFields == {"name", "description", "website", "location"}

C22_UserIdFromGate ==
    [][/\ Len(companies') >= Len(companies)
       /\ \A i \in 1..Len(companies) :
              /\ companies'[i].userId = companies[i].userId
              /\ companies'[i] # companies[i] =>
                     /\ req'.started = "updateCompany"
                     /\ \A f \in DOMAIN companies[i] \ UpdatedFields :
                            companies'[i][f] = companies[i][f]
       /\ \A i \in (Len(companies) + 1)..Len(companies') :
              /\ req.stage = "handler"
              /\ req'.started = "registerCompany"
              /\ companies'[i].userId = req.id]_vars

====
